---- MODULE Spec2Model ----
(***************************************************************************)
(* Model of Profiler.hpp: the Recorder singleton (BeginSession,            *)
(* EndSession, WriteRecord under one std::mutex) and the scoped Timer.     *)
(*                                                                         *)
(* Every thread is a small program counter machine.  The steps are cut     *)
(* where another thread can observe a difference: at each acquisition of   *)
(* the mutex, and at each access to first_record that WriteRecord makes    *)
(* before it takes the mutex (lines 89-94).  A file is the sequence of the *)
(* units that were inserted into the stream: the header, the footer, and   *)
(* one unit per json.str() (line 111).                                     *)
(***************************************************************************)
EXTENDS Integers, Sequences, FiniteSets, TLC

\* ------------------------------------------------------------------ bounds
\* Calls the application makes in one behaviour: BeginSession, EndSession,
\* WriteRecord, and the construction, Stop() and destruction of a Timer.
MaxCalls == 4
\* Calls in one behaviour of the Recorder used without Timers (LongSpec).
MaxLongCalls == 5
\* Explicit Stop() calls on one Timer.
MaxStops == 2
\* Characters in a record name.
MaxNameLen == 3

\* ------------------------------------------------------------- value sets
Threads == {"t1", "t2"}
NoThread == "none"
Paths == {"f1", "f2"}
NoPath == "nopath"
\* The (name, filepath) arguments BeginSession is called with.
Sessions == {[name |-> "n1", path |-> "f1"], [name |-> "n2", path |-> "f2"]}
\* current_session == nullptr
NoSession == "nullptr"
NoArg == [name |-> NoSession, path |-> NoPath]

\* A name is the sequence of its characters.
DQ == "\""
SQ == "'"
Chars == {"F", DQ, SQ}
NamesUpTo(n) == UNION {[1..k -> Chars] : k \in 0..n}
FooBar == <<"F", "o", "o", DQ, "B", "a", "r">>

\* struct Result (lines 20-26).
Result(name, start, end, thread_id) ==
    [name |-> name, start |-> start, end |-> end, thread_id |-> thread_id]
NoResult == Result(<<>>, 0, 0, 0)

\* The Result a direct WriteRecord call passes where the content of the
\* record is not what is examined: it decides no branch of the code.
PlainResults == {Result(<<"A">>, 1000, 1500, 7)}

\* The Results the scripted session is run with.
RecordInputs ==
    {Result(n, se[1], se[2], h) :
        n \in NamesUpTo(MaxNameLen) \cup {FooBar, <<"A">>},
        se \in {<<1000, 1500>>, <<0, 0>>, <<3, 5>>},
        h \in {0, 7}}

\* Timer's constructor arguments (line 137).
TimerNames == {<<"A">>}
\* The readings of high_resolution_clock::now() in microseconds (lines 140,
\* 152-154).
Clock == {1000}
\* (uint32_t) std::hash<std::thread::id>{}(get_id()) (line 156).
ThreadHash(t) == IF t = "t1" THEN 7 ELSE 8

\* ----------------------------------------------------------------- state
VARIABLES
    pc,               \* [Threads -> label]: where each thread stands
    ret,              \* [Threads -> label]: where the current callee returns to
    mutex,            \* Recorder::mutex: its owner, or NoThread
    current_session,  \* Recorder::current_session: the Session's Name, or NoSession
    is_open,          \* output_stream.is_open()
    sink,             \* the path output_stream is bound to while open
    first_record,     \* Recorder::first_record
    files,            \* [Paths -> Seq(unit)]: the file system
    arg,              \* [Threads -> (name, filepath)] of the running BeginSession
    json,             \* [Threads -> unit]: the local stringstream of WriteRecord
    timer,            \* [Threads -> Timer]: the Timer on each thread's stack
    ncalls,           \* history: calls the application has made so far
    epoch,            \* history: sessions opened so far (numbers the sessions)
    accepted,         \* history: WriteRecord calls that held the lock in this session
    openFailed,       \* history: ncalls when the last open failed, 0 once one succeeds
    dbl,              \* history: [Threads -> path of the session this BeginSession found open]
    last              \* history: how the most recent call or step ended

vars == <<pc, ret, mutex, current_session, is_open, sink, first_record, files,
          arg, json, timer, ncalls, epoch, accepted, openFailed, dbl, last>>

\* ------------------------------------------------------------ formatting
\* A replacement that stops at the first match: only the first
\* double quote is replaced.
ReplaceQuotes_FirstOnly(name) ==
    IF \E i \in DOMAIN name : name[i] = DQ
    THEN LET k == CHOOSE i \in DOMAIN name :
                     name[i] = DQ /\ \A j \in 1..(i - 1) : name[j] # DQ
         IN [name EXCEPT ![k] = SQ]
    ELSE name

\* std::replace(name.begin(), name.end(), '"', '\'') (line 97): every element
\* equal to the double quote is assigned the single quote, first to last.
RECURSIVE ReplaceQuotes(_)
ReplaceQuotes(name) ==
    IF name = <<>> THEN <<>>
    ELSE <<IF Head(name) = DQ THEN SQ ELSE Head(name)>> \o ReplaceQuotes(Tail(name))

\* FormatRecord whose "dur" is the end of the interval, not its length.
FormatRecord_EndAsDur(result) ==
    [cat |-> "function",
     dur |-> result.end,
     name |-> ReplaceQuotes(result.name),
     ph |-> "X",
     pid |-> 0,
     tid |-> result.thread_id,
     ts |-> result.start]

\* The JSON object of lines 99-106, key by key.
FormatRecord(result) ==
    [cat |-> "function",
     dur |-> result.end - result.start,
     name |-> ReplaceQuotes(result.name),
     ph |-> "X",
     pid |-> 0,
     tid |-> result.thread_id,
     ts |-> result.start]

NoObject ==
    [cat |-> "", dur |-> 0, name |-> <<>>, ph |-> "", pid |-> 0, tid |-> 0, ts |-> 0]

\* ----------------------------------------------------------------- units
\* WriteHeader (lines 116-120); as history, ep numbers the session and rec is
\* openFailed as the session was opened (0: not opened after a failed open).
Header(ep, afterFail) ==
    [kind |-> "header", comma |-> FALSE, id |-> 0, tid |-> NoThread, ep |-> ep,
     seen |-> 0, rec |-> afterFail]

\* WriteFooter (lines 122-126); id carries the history count of accepted calls.
Footer(ep, n) ==
    [kind |-> "footer", comma |-> FALSE, id |-> n, tid |-> NoThread, ep |-> ep,
     seen |-> 0, rec |-> 0]

\* The fragment WriteRecord formats (lines 86-106): comma is the leading ",",
\* obj the JSON object, res the Result it is made from.  As history: id the
\* call, tid the calling thread, ep the session open when the call was issued
\* (0: none), seen the number of records that session had taken by then, and
\* lep and at the session and its number of records as the call took the lock.
Fragment(comma, id, tid, ep, seen) ==
    [kind |-> "rec", comma |-> comma, id |-> id, tid |-> tid, ep |-> ep,
     seen |-> seen, rec |-> 0, lep |-> 0, at |-> 0, obj |-> NoObject,
     res |-> NoResult]

NoJson == Fragment(FALSE, 0, NoThread, 0, 0)

\* The Timer object (lines 135-166) with the history of its Stop() calls.
NoTimer ==
    [state |-> "none", stopped |-> FALSE, explicit |-> 0, emitted |-> 0,
     name |-> <<>>, start |-> 0]

\* operator<< on the ofstream: a closed stream takes nothing (lines 111, 118, 124).
StreamInsert(fs, unit) ==
    IF is_open THEN [fs EXCEPT ![sink] = Append(@, unit)] ELSE fs

\* ------------------------------------------------------------------ Init
\* Recorder() (lines 41-44) initialises current_session only.  first_record
\* is false in the zero-initialised static instance of Get() (line 130) and
\* indeterminate in any other Recorder object.
Init ==
    /\ pc = [t \in Threads |-> "idle"]
    /\ ret = [t \in Threads |-> "idle"]
    /\ mutex = NoThread
    /\ current_session = NoSession
    /\ is_open = FALSE
    /\ sink = NoPath
    /\ first_record \in BOOLEAN
    /\ files = [p \in Paths |-> <<>>]
    /\ arg = [t \in Threads |-> NoArg]
    /\ json = [t \in Threads |-> NoJson]
    /\ timer = [t \in Threads |-> NoTimer]
    /\ ncalls = 0
    /\ epoch = 0
    /\ accepted = 0
    /\ openFailed = 0
    /\ dbl = [t \in Threads |-> NoPath]
    /\ last = "none"

\* --------------------------------------------------------- BeginSession
\* Entry of BeginSession(name, filepath) (line 46).
EnterBeginSession(t) ==
    /\ pc[t] = "idle"
    /\ \E s \in Sessions : arg' = [arg EXCEPT ![t] = s]
    /\ pc' = [pc EXCEPT ![t] = "bs_lock"]
    /\ ncalls' = ncalls + 1
    /\ UNCHANGED <<ret, mutex, current_session, is_open, sink, first_record,
                   files, json, timer, epoch, accepted, openFailed, dbl, last>>

\* The application calls BeginSession.
CallBeginSession(t) == ncalls < MaxCalls /\ EnterBeginSession(t)

\* std::lock_guard<std::mutex> lock(mutex) (line 48).
BeginLock(t) ==
    /\ pc[t] = "bs_lock"
    /\ mutex = NoThread
    /\ mutex' = t
    /\ pc' = [pc EXCEPT ![t] = "bs_cs"]
    /\ UNCHANGED <<ret, current_session, is_open, sink, first_record, files,
                   arg, json, timer, ncalls, epoch, accepted, openFailed, dbl, last>>

\* first_record = true; if (current_session) EndSession(); (lines 49-58):
\* with a session open the thread calls EndSession while it owns the mutex.
\* Locking a std::mutex the thread owns (line 74 reached from line 57) is
\* undefined, and what it does is chosen here: the call blocks for ever
\* ("es_lock", where EndLock waits for a mutex that is never released), or
\* lock() detects the ownership and throws std::system_error ("es_throw").
BeginReset(t) ==
    /\ pc[t] = "bs_cs"
    /\ first_record' = TRUE
    /\ IF current_session # NoSession
       THEN /\ \E l \in {"es_lock", "es_throw"} : pc' = [pc EXCEPT ![t] = l]
            /\ ret' = [ret EXCEPT ![t] = "bs_open"]
            /\ dbl' = [dbl EXCEPT ![t] = sink]
       ELSE /\ pc' = [pc EXCEPT ![t] = "bs_open"]
            /\ UNCHANGED <<ret, dbl>>
    /\ UNCHANGED <<mutex, current_session, is_open, sink, files, arg, json,
                   timer, ncalls, epoch, accepted, openFailed, last>>

\* BeginOpen without the is_open() test of line 61: the Session is created
\* and the header inserted whether or not the file could be opened.
BeginOpen_Unchecked(t) ==
    /\ pc[t] = "bs_open"
    /\ \E ok \in BOOLEAN :
          /\ IF ok /\ ~is_open
             THEN /\ is_open' = TRUE
                  /\ sink' = arg[t].path
                  /\ files' = [files EXCEPT
                                 ![arg[t].path] = <<Header(epoch + 1, openFailed)>>]
                  /\ openFailed' = 0
                  /\ last' = "opened"
             ELSE /\ openFailed' = (IF is_open THEN openFailed ELSE ncalls)
                  /\ last' = "openfail"
                  /\ UNCHANGED <<is_open, sink, files>>
          /\ current_session' = arg[t].name
          /\ epoch' = epoch + 1
          /\ accepted' = 0
    /\ mutex' = NoThread
    /\ pc' = [pc EXCEPT ![t] = "idle"]
    /\ arg' = [arg EXCEPT ![t] = NoArg]
    /\ dbl' = [dbl EXCEPT ![t] = NoPath]
    /\ UNCHANGED <<ret, first_record, json, timer, ncalls>>

\* BeginOpen that opens the file for appending (std::ios::app) instead of
\* truncating it.
BeginOpen_Append(t) ==
    /\ pc[t] = "bs_open"
    /\ \E ok \in BOOLEAN :
          IF ok /\ ~is_open
          THEN /\ is_open' = TRUE
               /\ sink' = arg[t].path
               /\ current_session' = arg[t].name
               /\ files' = [files EXCEPT
                              ![arg[t].path] = Append(@, Header(epoch + 1, openFailed))]
               /\ epoch' = epoch + 1
               /\ accepted' = 0
               /\ openFailed' = 0
               /\ last' = "opened"
          ELSE /\ openFailed' = (IF is_open THEN openFailed ELSE ncalls)
               /\ last' = "openfail"
               /\ UNCHANGED <<is_open, sink, current_session, files, epoch, accepted>>
    /\ mutex' = NoThread
    /\ pc' = [pc EXCEPT ![t] = "idle"]
    /\ arg' = [arg EXCEPT ![t] = NoArg]
    /\ dbl' = [dbl EXCEPT ![t] = NoPath]
    /\ UNCHANGED <<ret, first_record, json, timer, ncalls>>

\* output_stream.open(filepath); if (is_open()) { new Session; WriteHeader(); }
\* (lines 59-70).  ok is whether the file system lets the file be opened; open
\* truncates, and open on a stream that is open already fails.  The lock_guard
\* releases the mutex at the return.
BeginOpen(t) ==
    /\ pc[t] = "bs_open"
    /\ \E ok \in BOOLEAN :
          IF ok /\ ~is_open
          THEN /\ is_open' = TRUE
               /\ sink' = arg[t].path
               /\ current_session' = arg[t].name
               /\ files' = [files EXCEPT
                              ![arg[t].path] = <<Header(epoch + 1, openFailed)>>]
               /\ epoch' = epoch + 1
               /\ accepted' = 0
               /\ openFailed' = 0
               /\ last' = "opened"
          ELSE /\ openFailed' = (IF is_open THEN openFailed ELSE ncalls)
               /\ last' = "openfail"
               /\ UNCHANGED <<is_open, sink, current_session, files, epoch, accepted>>
    /\ mutex' = NoThread
    /\ pc' = [pc EXCEPT ![t] = "idle"]
    /\ arg' = [arg EXCEPT ![t] = NoArg]
    /\ dbl' = [dbl EXCEPT ![t] = NoPath]
    /\ UNCHANGED <<ret, first_record, json, timer, ncalls>>

\* ----------------------------------------------------------- EndSession
\* Entry of EndSession() (line 72), called by the application.
EnterEndSession(t) ==
    /\ pc[t] = "idle"
    /\ pc' = [pc EXCEPT ![t] = "es_lock"]
    /\ ret' = [ret EXCEPT ![t] = "idle"]
    /\ ncalls' = ncalls + 1
    /\ UNCHANGED <<mutex, current_session, is_open, sink, first_record, files,
                   arg, json, timer, epoch, accepted, openFailed, dbl, last>>

\* The application calls EndSession.
CallEndSession(t) == ncalls < MaxCalls /\ EnterEndSession(t)

\* std::lock_guard<std::mutex> lock(mutex) (line 74) by a thread that does not
\* own the mutex.  A thread that owns it (EndSession called from line 57)
\* never passes this guard: std::mutex is not recursive.
EndLock(t) ==
    /\ pc[t] = "es_lock"
    /\ mutex = NoThread
    /\ mutex' = t
    /\ pc' = [pc EXCEPT ![t] = "es_cs"]
    /\ UNCHANGED <<ret, current_session, is_open, sink, first_record, files,
                   arg, json, timer, ncalls, epoch, accepted, openFailed, dbl, last>>

\* Line 74 reached from line 57 where lock() throws std::system_error: the
\* exception leaves EndSession and BeginSession; unwinding destroys the
\* lock_guard of line 48, which releases the mutex.
RelockError(t) ==
    /\ pc[t] = "es_throw"
    /\ mutex = t
    /\ mutex' = NoThread
    /\ pc' = [pc EXCEPT ![t] = "idle"]
    /\ ret' = [ret EXCEPT ![t] = "idle"]
    /\ arg' = [arg EXCEPT ![t] = NoArg]
    /\ dbl' = [dbl EXCEPT ![t] = NoPath]
    /\ last' = "raised"
    /\ UNCHANGED <<current_session, is_open, sink, first_record, files, json,
                   timer, ncalls, epoch, accepted, openFailed>>

\* EndBody that also sets first_record = true, as BeginSession does.
EndBody_ResetsFlag(t) ==
    /\ pc[t] = "es_cs"
    /\ IF current_session # NoSession
       THEN /\ files' = StreamInsert(files, Footer(epoch, accepted))
            /\ is_open' = FALSE
            /\ current_session' = NoSession
            /\ last' = "closed"
       ELSE /\ last' = "noop"
            /\ UNCHANGED <<files, is_open, current_session>>
    /\ first_record' = TRUE
    /\ mutex' = NoThread
    /\ pc' = [pc EXCEPT ![t] = ret[t]]
    /\ ret' = [ret EXCEPT ![t] = "idle"]
    /\ UNCHANGED <<sink, arg, json, timer, ncalls, epoch, accepted, openFailed, dbl>>

\* EndBody that writes the footer and stops there: the stream stays open
\* and the Session stays in place.
EndBody_FooterOnly(t) ==
    /\ pc[t] = "es_cs"
    /\ IF current_session # NoSession
       THEN /\ files' = StreamInsert(files, Footer(epoch, accepted))
            /\ last' = "closed"
       ELSE /\ last' = "noop"
            /\ UNCHANGED files
    /\ mutex' = NoThread
    /\ pc' = [pc EXCEPT ![t] = ret[t]]
    /\ ret' = [ret EXCEPT ![t] = "idle"]
    /\ UNCHANGED <<is_open, current_session, sink, first_record, arg, json,
                   timer, ncalls, epoch, accepted, openFailed, dbl>>

\* if (current_session) { WriteFooter(); close(); delete; = nullptr; }
\* (lines 75-82); the lock_guard of line 74 releases the mutex at the return.
EndBody(t) ==
    /\ pc[t] = "es_cs"
    /\ IF current_session # NoSession
       THEN /\ files' = StreamInsert(files, Footer(epoch, accepted))
            /\ is_open' = FALSE
            /\ current_session' = NoSession
            /\ last' = "closed"
       ELSE /\ last' = "noop"
            /\ UNCHANGED <<files, is_open, current_session>>
    /\ mutex' = NoThread
    /\ pc' = [pc EXCEPT ![t] = ret[t]]
    /\ ret' = [ret EXCEPT ![t] = "idle"]
    /\ UNCHANGED <<sink, first_record, arg, json, timer, ncalls, epoch,
                   accepted, openFailed, dbl>>

\* ---------------------------------------------------------- WriteRecord
\* Entry of WriteRecord(result) (line 84), returning to label `to`.
EnterWriteRecord(t, to, result) ==
    /\ ncalls' = ncalls + 1
    /\ pc' = [pc EXCEPT ![t] = "wr_test"]
    /\ ret' = [ret EXCEPT ![t] = to]
    /\ json' = [json EXCEPT ![t] =
                  [Fragment(FALSE, ncalls + 1, t,
                            IF current_session # NoSession THEN epoch ELSE 0,
                            IF current_session # NoSession THEN accepted ELSE 0)
                   EXCEPT !.res = result]]

\* WriteRecord called by the application itself, with a Result of set R.
DirectWriteRecord(t, R) ==
    /\ pc[t] = "idle"
    /\ \E r \in R : EnterWriteRecord(t, "idle", r)
    /\ UNCHANGED <<mutex, current_session, is_open, sink, first_record, files,
                   arg, timer, epoch, accepted, openFailed, dbl, last>>

\* The application calls WriteRecord directly.
CallWriteRecord(t) == ncalls < MaxCalls /\ DirectWriteRecord(t, PlainResults)

\* if (first_record) json << "{"; else json << ",{"; (lines 89, 90, 93): the
\* flag is read without the mutex.  The object of lines 96-106 follows in
\* either branch and is local to the thread.
WriteTest(t) ==
    /\ pc[t] = "wr_test"
    /\ json' = [json EXCEPT ![t].comma = ~first_record,
                            ![t].obj = FormatRecord(json[t].res)]
    /\ pc' = [pc EXCEPT ![t] = IF first_record THEN "wr_clear" ELSE "wr_lock"]
    /\ UNCHANGED <<ret, mutex, current_session, is_open, sink, first_record,
                   files, arg, timer, ncalls, epoch, accepted, openFailed, dbl, last>>

\* first_record = false; (line 91): the flag is written without the mutex.
WriteClear(t) ==
    /\ pc[t] = "wr_clear"
    /\ first_record' = FALSE
    /\ pc' = [pc EXCEPT ![t] = "wr_lock"]
    /\ UNCHANGED <<ret, mutex, current_session, is_open, sink, files, arg, json,
                   timer, ncalls, epoch, accepted, openFailed, dbl, last>>

\* WriteLock whose lock_guard is an unnamed temporary: the mutex is taken and
\* released within the statement, and the stream is written without it.
WriteLock_Temporary(t) ==
    /\ pc[t] = "wr_lock"
    /\ mutex = NoThread
    /\ mutex' = NoThread
    /\ pc' = [pc EXCEPT ![t] = "wr_cs"]
    /\ json' = [json EXCEPT
                  ![t].lep = IF current_session # NoSession THEN epoch ELSE 0,
                  ![t].at = IF current_session # NoSession THEN accepted ELSE 0]
    /\ UNCHANGED <<ret, current_session, is_open, sink, first_record, files,
                   arg, timer, ncalls, epoch, accepted, openFailed, dbl, last>>

\* std::lock_guard<std::mutex> lock(mutex) (line 108), after the fragment is
\* formatted (lines 96-106).
WriteLock(t) ==
    /\ pc[t] = "wr_lock"
    /\ mutex = NoThread
    /\ mutex' = t
    /\ pc' = [pc EXCEPT ![t] = "wr_cs"]
    /\ json' = [json EXCEPT
                  ![t].lep = IF current_session # NoSession THEN epoch ELSE 0,
                  ![t].at = IF current_session # NoSession THEN accepted ELSE 0]
    /\ UNCHANGED <<ret, current_session, is_open, sink, first_record, files,
                   arg, timer, ncalls, epoch, accepted, openFailed, dbl, last>>

\* WriteBody that treats a missing session as an error: it throws instead of
\* dropping the record.
WriteBody_Throws(t) ==
    /\ pc[t] = "wr_cs"
    /\ IF current_session # NoSession
       THEN /\ files' = StreamInsert(files, json[t])
            /\ accepted' = accepted + 1
            /\ last' = "wrote"
       ELSE /\ last' = "raised"
            /\ UNCHANGED <<files, accepted>>
    /\ mutex' = NoThread
    /\ pc' = [pc EXCEPT ![t] = ret[t]]
    /\ ret' = [ret EXCEPT ![t] = "idle"]
    /\ json' = [json EXCEPT ![t] = NoJson]
    /\ UNCHANGED <<current_session, is_open, sink, first_record, arg, timer,
                   ncalls, epoch, openFailed, dbl>>

\* if (current_session) { output_stream << json.str(); flush(); } (lines
\* 109-113); the lock_guard releases the mutex at the return.
WriteBody(t) ==
    /\ pc[t] = "wr_cs"
    /\ IF current_session # NoSession
       THEN /\ files' = StreamInsert(files, json[t])
            /\ accepted' = accepted + 1
            /\ last' = "wrote"
       ELSE /\ last' = "dropped"
            /\ UNCHANGED <<files, accepted>>
    /\ mutex' = NoThread
    /\ pc' = [pc EXCEPT ![t] = ret[t]]
    /\ ret' = [ret EXCEPT ![t] = "idle"]
    /\ json' = [json EXCEPT ![t] = NoJson]
    /\ UNCHANGED <<current_session, is_open, sink, first_record, arg, timer,
                   ncalls, epoch, openFailed, dbl>>

\* ---------------------------------------------------------------- Timer
\* Timer(setName) (lines 137-141): stopped(false).
TimerNew(t) ==
    /\ pc[t] = "idle"
    /\ timer[t].state \in {"none", "dead"}
    /\ ncalls < MaxCalls
    /\ \E n \in TimerNames, now \in Clock :
          timer' = [timer EXCEPT ![t] =
                      [NoTimer EXCEPT !.state = "live", !.name = n, !.start = now]]
    /\ ncalls' = ncalls + 1
    /\ UNCHANGED <<pc, ret, mutex, current_session, is_open, sink, first_record,
                   files, arg, json, epoch, accepted, openFailed, dbl, last>>

\* Stop() called by the application (lines 150-157): the record is built and
\* forwarded to Recorder::Get().WriteRecord whatever `stopped` holds.
TimerStop(t) ==
    /\ pc[t] = "idle"
    /\ timer[t].state = "live"
    /\ timer[t].explicit < MaxStops
    /\ ncalls < MaxCalls
    /\ timer' = [timer EXCEPT ![t].explicit = @ + 1, ![t].emitted = @ + 1]
    /\ \E now \in Clock :
          EnterWriteRecord(t, "st_ret",
                           Result(timer[t].name, timer[t].start, now, ThreadHash(t)))
    /\ UNCHANGED <<mutex, current_session, is_open, sink, first_record, files,
                   arg, epoch, accepted, openFailed, dbl, last>>

\* ~Timer() without the test of `stopped` (line 145): it always calls Stop().
TimerDtor_Unguarded(t) ==
    /\ pc[t] = "idle"
    /\ timer[t].state = "live"
    /\ ncalls < MaxCalls
    /\ timer' = [timer EXCEPT ![t].state = "dtor", ![t].emitted = @ + 1]
    /\ \E now \in Clock :
          EnterWriteRecord(t, "st_ret",
                           Result(timer[t].name, timer[t].start, now, ThreadHash(t)))
    /\ UNCHANGED <<mutex, current_session, is_open, sink, first_record, files,
                   arg, epoch, accepted, openFailed, dbl, last>>

\* ~Timer() (lines 143-148): if (stopped == false) Stop();
TimerDtor(t) ==
    /\ pc[t] = "idle"
    /\ timer[t].state = "live"
    /\ IF timer[t].stopped = FALSE
       THEN /\ ncalls < MaxCalls
            /\ timer' = [timer EXCEPT ![t].state = "dtor", ![t].emitted = @ + 1]
            /\ \E now \in Clock :
                  EnterWriteRecord(t, "st_ret",
                                   Result(timer[t].name, timer[t].start, now,
                                          ThreadHash(t)))
       ELSE /\ ncalls < MaxCalls
            /\ timer' = [timer EXCEPT ![t].state = "dead"]
            /\ ncalls' = ncalls + 1
            /\ UNCHANGED <<pc, ret, json>>
    /\ UNCHANGED <<mutex, current_session, is_open, sink, first_record, files,
                   arg, epoch, accepted, openFailed, dbl, last>>

\* stopped = true; (line 159), after WriteRecord has returned; a Stop() made
\* by the destructor ends the Timer's life.
StopReturn(t) ==
    /\ pc[t] = "st_ret"
    /\ timer' = [timer EXCEPT
                   ![t].stopped = TRUE,
                   ![t].state = IF @ = "dtor" THEN "dead" ELSE @]
    /\ pc' = [pc EXCEPT ![t] = "idle"]
    /\ UNCHANGED <<ret, mutex, current_session, is_open, sink, first_record,
                   files, arg, json, ncalls, epoch, accepted, openFailed, dbl, last>>

\* ----------------------------------------------------------------- Next
\* The steps of a call in progress.
Progress(t) ==
    \/ BeginLock(t)
    \/ BeginReset(t)
    \/ BeginOpen(t)
    \/ EndLock(t)
    \/ RelockError(t)
    \/ EndBody(t)
    \/ WriteTest(t)
    \/ WriteClear(t)
    \/ WriteLock(t)
    \/ WriteBody(t)
    \/ StopReturn(t)

\* The calls the application makes.
Call(t) ==
    \/ CallBeginSession(t)
    \/ CallEndSession(t)
    \/ CallWriteRecord(t)
    \/ TimerNew(t)
    \/ TimerStop(t)
    \/ TimerDtor(t)

Next == \E t \in Threads : Call(t) \/ Progress(t)

Spec == Init /\ [][Next]_vars

\* ------------------------------------------------------- one at a time
\* No call is in progress.
Quiet == \A u \in Threads : pc[u] = "idle"

\* The application issues a call only when the one before has returned.
SeqCall(t) == Quiet /\ Call(t)

SeqNext == \E t \in Threads : SeqCall(t) \/ Progress(t)

SeqSpec == Init /\ [][SeqNext]_vars

\* ------------------------------------------------- Recorder without Timers
\* The application calls the Recorder's three operations only, from both
\* threads, MaxLongCalls times in all.
LongBeginSession(t) == ncalls < MaxLongCalls /\ EnterBeginSession(t)

LongEndSession(t) == ncalls < MaxLongCalls /\ EnterEndSession(t)

LongWriteRecord(t) == ncalls < MaxLongCalls /\ DirectWriteRecord(t, PlainResults)

LongNext ==
    \E t \in Threads :
       \/ LongBeginSession(t)
       \/ BeginLock(t)
       \/ BeginReset(t)
       \/ BeginOpen(t)
       \/ LongEndSession(t)
       \/ EndLock(t)
       \/ RelockError(t)
       \/ EndBody(t)
       \/ LongWriteRecord(t)
       \/ WriteTest(t)
       \/ WriteClear(t)
       \/ WriteLock(t)
       \/ WriteBody(t)

LongSpec == Init /\ [][LongNext]_vars

\* ------------------------------------------------------ scripted session
\* One thread runs BeginSession; WriteRecord(result); EndSession, with the
\* Result drawn from RecordInputs.
Main == "t1"

ScriptBeginSession == ncalls = 0 /\ CallBeginSession(Main)

ScriptWriteRecord == ncalls = 1 /\ DirectWriteRecord(Main, RecordInputs)

ScriptEndSession == ncalls = 2 /\ CallEndSession(Main)

ScriptNext ==
    \/ ScriptBeginSession
    \/ BeginLock(Main)
    \/ BeginReset(Main)
    \/ BeginOpen(Main)
    \/ ScriptWriteRecord
    \/ WriteTest(Main)
    \/ WriteClear(Main)
    \/ WriteLock(Main)
    \/ WriteBody(Main)
    \/ ScriptEndSession
    \/ EndLock(Main)
    \/ EndBody(Main)

RecordSpec == Init /\ [][ScriptNext]_vars

\* ------------------------------------------------------ reading a file
IsRec(u) == u.kind = "rec"

Closed(f) == Len(f) > 0 /\ f[Len(f)].kind = "footer"

NumRecords(f) == Cardinality({i \in DOMAIN f : IsRec(f[i])})

\* header, then records of which the first has no leading comma and every
\* later one has one, and nothing else.
WellFormedOpen(f) ==
    /\ Len(f) >= 1
    /\ f[1].kind = "header"
    /\ \A i \in 2..Len(f) : IsRec(f[i]) /\ (f[i].comma <=> i > 2)

\* header, records separated by one comma, footer.
WellFormedDoc(f) ==
    /\ Len(f) >= 2
    /\ f[Len(f)].kind = "footer"
    /\ WellFormedOpen(SubSeq(f, 1, Len(f) - 1))

\* Thread t takes the step that leaves label l.
Leaves(t, l) == pc[t] = l /\ pc'[t] # l

\* ------------------------------------------------------------------- C1
\* C1: a file that EndSession has closed is header, records separated by
\* exactly one comma (none before the first, none after the last), footer, and
\* holds as many records as WriteRecord calls held the lock in that session.
C1_ClosedFileWellFormed ==
    \A p \in Paths :
        Closed(files[p]) =>
            /\ WellFormedDoc(files[p])
            /\ NumRecords(files[p]) = files[p][Len(files[p])].id

\* ------------------------------------------------------------------- C2
\* C2: two records of different threads whose WriteRecord calls ran at the
\* same time in one session (the later one in the file was issued in that
\* session before the earlier one was appended) are both in the file once,
\* next to each other with exactly one comma between them.
C2_ConcurrentPair ==
    \A p \in Paths :
        LET f == files[p] IN
        \A i \in 2..(Len(f) - 1) :
            ( /\ IsRec(f[i]) /\ IsRec(f[i + 1])
              /\ f[i].tid # f[i + 1].tid
              /\ f[i].ep = f[1].ep /\ f[i + 1].ep = f[1].ep
              /\ f[i + 1].seen < i - 1 )
            => /\ f[i + 1].comma
               /\ (i = 2 => ~f[i].comma)
               /\ \A j \in DOMAIN f : (IsRec(f[j]) /\ f[j].id = f[i].id) => j = i

\* ------------------------------------------------------------------- C3
\* C3: when a BeginSession(n2, f2) that found session (n1, f1) open returns,
\* f1 is a complete document, f2 holds the header alone and n2 is active.
C3_DoubleBegin ==
    [][\A t \in Threads :
          (dbl[t] # NoPath /\ dbl[t] # arg[t].path /\ pc'[t] = "idle")
          => /\ WellFormedDoc(files'[dbl[t]])
             /\ Len(files'[arg[t].path]) = 1
             /\ files'[arg[t].path][1].kind = "header"
             /\ current_session' = arg[t].name]_vars

\* ------------------------------------------------------------------- C4
\* C4: every call returns: while a call is in progress some call in progress
\* can take a step, and the lock is free when no call is in progress.
C4_EveryCallReturns ==
    /\ (\A t \in Threads : pc[t] = "idle") => mutex = NoThread
    /\ (\E t \in Threads : pc[t] # "idle") => ENABLED (\E t \in Threads : Progress(t))

\* ------------------------------------------------------------------- C5
\* C5 as stated: no record of a WriteRecord call issued while no session was
\* open is in any file.
C5_IssuedWithoutSession ==
    \A p \in Paths : \A i \in DOMAIN files[p] :
        IsRec(files[p][i]) => files[p][i].ep # 0

\* C5 amended: a WriteRecord call that holds the lock while no session is open
\* appends nothing to any file and returns, the lock released, without an
\* error.
C5_DroppedAtLock ==
    [][\A t \in Threads :
          (Leaves(t, "wr_cs") /\ current_session = NoSession)
          => /\ files' = files
             /\ last' = "dropped"
             /\ mutex' = NoThread
             /\ pc'[t] = ret[t]]_vars

\* A call issued with no session open has held the lock with none open and
\* has returned; the files are as they were.
C5_Witness ==
    /\ last = "dropped"
    /\ \A t \in Threads : pc[t] = "idle"
    /\ \A p \in Paths : files[p] = <<>>

\* ------------------------------------------------------------------- C6
\* C6: however often Stop() is called on a Timer, one record is forwarded to
\* WriteRecord.
C6_StopIdempotent ==
    \A t \in Threads : timer[t].explicit >= 1 => timer[t].emitted = 1

\* ------------------------------------------------------------------- C7
\* C7: a Timer on which Stop() was called at most once explicitly has
\* forwarded at most one record, and exactly one once it is destroyed.
C7_OneRecordPerLifetime ==
    \A t \in Threads :
        timer[t].explicit <= 1 =>
            /\ timer[t].emitted <= 1
            /\ timer[t].state = "dead" => timer[t].emitted = 1

\* A Timer destroyed after one explicit Stop(): it has forwarded one record.
C7_Witness ==
    \E b \in Threads :
        /\ timer[b].state = "dead" /\ timer[b].explicit = 1 /\ timer[b].emitted = 1
        /\ timer[b].stopped

C9_SinkIffSession ==
    mutex = NoThread => (is_open <=> current_session # NoSession)

\* The lock is free after a failed open, a successful one, a record and an
\* EndSession in turn: the sink is closed and no session is active.
C9_Witness ==
    /\ mutex = NoThread
    /\ \A t \in Threads : pc[t] = "idle"
    /\ last = "closed"
    /\ ~is_open /\ current_session = NoSession
    /\ \E p \in Paths : Closed(files[p]) /\ files[p][1].rec > 0 /\ NumRecords(files[p]) = 1

\* ------------------------------------------------------------------ C10
\* C10: a thread about to read or write current_session, output_stream or
\* first_record holds the lock.
C10_SharedStateUnderLock ==
    \A t \in Threads :
        pc[t] \in {"bs_cs", "bs_open", "es_cs", "wr_test", "wr_clear", "wr_cs"}
        => mutex = t

\* ------------------------------------------------------------------ C11
\* C11: records are in a file in the order in which their WriteRecord calls
\* took the lock: every record of a file took the lock in that file's
\* session, a record that is earlier in the file took it earlier (the session
\* had accepted fewer records by then), and a call has at most one fragment,
\* in one file.
C11_LockOrder ==
    /\ \A p \in Paths : \A i \in DOMAIN files[p] :
          IsRec(files[p][i]) =>
            /\ files[p][i].lep = files[p][1].ep
            /\ \A j \in DOMAIN files[p] :
                  (i < j /\ IsRec(files[p][j])) => files[p][i].at < files[p][j].at
    /\ \A p, q \in Paths : \A i \in DOMAIN files[p] : \A j \in DOMAIN files[q] :
          (IsRec(files[p][i]) /\ IsRec(files[q][j])
             /\ files[p][i].id = files[q][j].id) => (p = q /\ i = j)

\* Two threads' records in one file, the call issued later written first.
C11_Witness ==
    \E p \in Paths :
       /\ Len(files[p]) >= 3
       /\ IsRec(files[p][2]) /\ IsRec(files[p][3])
       /\ files[p][2].tid # files[p][3].tid
       /\ files[p][2].id > files[p][3].id

\* ------------------------------------------------------------------ C12
\* C12: the step of EndSession that finds no session writes no footer,
\* leaves every file, the session (absent), the sink (closed) and the
\* first-record flag as they were, and returns; so the second of two
\* EndSession calls in a row adds no footer to the one of the first.
C12_EndWithoutSession ==
    [][\A t \in Threads :
          (Leaves(t, "es_cs") /\ current_session = NoSession) =>
             /\ files' = files
             /\ current_session' = NoSession
             /\ ~is_open /\ ~is_open'
             /\ sink' = sink
             /\ first_record' = first_record
             /\ pc'[t] = "idle"
             /\ mutex' = NoThread]_vars

\* BeginSession, EndSession, EndSession: one footer, and the flag still set.
C12_Witness ==
    /\ last = "noop"
    /\ ncalls = 3
    /\ first_record
    /\ \A t \in Threads : pc[t] = "idle"
    /\ \E p \in Paths :
          /\ Closed(files[p])
          /\ Cardinality({i \in DOMAIN files[p] : files[p][i].kind = "footer"}) = 1

\* ------------------------------------------------------------------ C13
\* C13: while a session is active its file is that session's header followed
\* by records only, with no footer; every file has one header, its first
\* element, written when its session began, and at most one footer, which
\* only a file whose session has been ended has.
C13_ActiveFile ==
    /\ current_session # NoSession =>
          /\ is_open
          /\ Len(files[sink]) >= 1
          /\ files[sink][1].kind = "header"
          /\ files[sink][1].ep = epoch
          /\ \A i \in 2..Len(files[sink]) : IsRec(files[sink][i])
    /\ \A p \in Paths : \A i \in DOMAIN files[p] :
          /\ files[p][i].kind = "header" <=> i = 1
          /\ files[p][i].kind = "footer" =>
                /\ \A j \in DOMAIN files[p] : files[p][j].kind = "footer" => j = i
                /\ files[p][i].ep = files[p][1].ep
                /\ ~(current_session # NoSession /\ sink = p)

\* A second session on the path of a closed first one, never ended, with a
\* record in its file.
C13_Witness ==
    /\ current_session # NoSession
    /\ epoch = 2
    /\ files[sink][1].rec = 0
    /\ NumRecords(files[sink]) = 1
    /\ \A p \in Paths : p # sink => files[p] = <<>>
    /\ \A t \in Threads : pc[t] = "idle"

\* ------------------------------------------------------------------ C14
\* C14: after BeginSession (the open succeeds), one WriteRecord(result) and
\* EndSession by one thread, the file is the header, one fragment without a
\* leading comma and the footer, and the fragment has dur = end - start,
\* ts = start, tid = thread_id, pid = 0, ph = X and cat = function; start 1000,
\* end 1500, thread 7 give dur 500, ts 1000, tid 7.
C14_OneRecordDocument ==
    (ncalls = 3 /\ pc[Main] = "idle" /\ last = "closed") =>
       LET f == files[sink] IN
       /\ Len(f) = 3
       /\ f[1].kind = "header" /\ IsRec(f[2]) /\ f[3].kind = "footer"
       /\ ~f[2].comma
       /\ f[2].res \in RecordInputs
       /\ f[2].obj.dur = f[2].res.end - f[2].res.start
       /\ f[2].obj.ts = f[2].res.start
       /\ f[2].obj.tid = f[2].res.thread_id
       /\ f[2].obj.pid = 0
       /\ f[2].obj.ph = "X"
       /\ f[2].obj.cat = "function"
       /\ (f[2].res.start = 1000 /\ f[2].res.end = 1500 /\ f[2].res.thread_id = 7)
            => (f[2].obj.dur = 500 /\ f[2].obj.ts = 1000 /\ f[2].obj.tid = 7)

\* The document of the record (A, 1000, 1500, 7).
C14_Witness ==
    /\ ncalls = 3 /\ pc[Main] = "idle" /\ last = "closed"
    /\ Len(files[sink]) = 3
    /\ files[sink][2].res = Result(<<"A">>, 1000, 1500, 7)
    /\ ~files[sink][2].comma
    /\ files[sink][2].obj =
          [cat |-> "function", dur |-> 500, name |-> <<"A">>, ph |-> "X",
           pid |-> 0, tid |-> 7, ts |-> 1000]
    /\ files[sink][3].kind = "footer"

\* ------------------------------------------------------------------ C15
\* C15: the name in every record of a file is the name passed to WriteRecord
\* with each double quote turned into a single quote and every other
\* character kept, in the same length and order, so it holds no double quote;
\* Foo"Bar is written as Foo'Bar.
C15_NameQuotes ==
    \A p \in Paths : \A i \in DOMAIN files[p] :
       IsRec(files[p][i]) =>
          LET given == files[p][i].res.name
              written == files[p][i].obj.name
          IN /\ Len(written) = Len(given)
             /\ \A k \in DOMAIN given :
                   /\ given[k] = DQ => written[k] = SQ
                   /\ given[k] # DQ => written[k] = given[k]
             /\ \A k \in DOMAIN written : written[k] # DQ
             /\ given = FooBar => written = <<"F", "o", "o", SQ, "B", "a", "r">>

\* Foo"Bar written as Foo'Bar.
C15_Witness ==
    \E p \in Paths : \E i \in DOMAIN files[p] :
       /\ IsRec(files[p][i])
       /\ files[p][i].res.name = FooBar
       /\ files[p][i].obj.name = <<"F", "o", "o", "'", "B", "a", "r">>

\* ------------------------------------------------------------------ C16
\* C16: with the calls issued one at a time, in every file the first record
\* has no leading comma and every later record has one.
C16_CommaPerSession ==
    \A p \in Paths : \A i \in DOMAIN files[p] :
       IsRec(files[p][i]) => (files[p][i].comma <=> i > 2)

\* ------------------------------------------------------------------ C17
\* C17: a record whose call was issued in session S1 and took the lock after
\* S1 was ended and S2 begun is in S2's file and in no other, has a leading
\* comma exactly if it is not the first record of S2's file, and the record
\* after it has a leading comma.
C17_LateRecord ==
    \A p \in Paths :
       LET f == files[p] IN
       \A i \in DOMAIN f :
          (IsRec(f[i]) /\ f[i].ep # 0 /\ f[1].ep = f[i].ep + 1) =>
             /\ f[i].lep = f[1].ep
             /\ \A q \in Paths : \A j \in DOMAIN files[q] :
                   (IsRec(files[q][j]) /\ files[q][j].id = f[i].id)
                      => (q = p /\ j = i)
             /\ f[i].comma <=> i > 2
             /\ (i < Len(f) /\ IsRec(f[i + 1])) => f[i + 1].comma

\* ------------------------------------------------------------------ C18
\* C18: with the calls issued one at a time and first_record assigned by an
\* earlier BeginSession, no step of a WriteRecord call made while no session
\* is active changes the session, the sink, the first-record flag or a file.
C18_WriteWithoutSession ==
    [][\A t \in Threads :
          ( /\ pc[t] \in {"wr_test", "wr_clear", "wr_lock", "wr_cs"}
            /\ pc'[t] # pc[t]
            /\ current_session = NoSession
            /\ (epoch > 0 \/ openFailed > 0) )
          => /\ current_session' = NoSession
             /\ is_open' = is_open
             /\ sink' = sink
             /\ first_record' = first_record
             /\ files' = files]_vars

\* ------------------------------------------------------------------ C19
\* C19: in every file a footer is the last element: no record, header or
\* second footer follows it.
C19_FooterLast ==
    \A p \in Paths : \A i \in DOMAIN files[p] :
       files[p][i].kind = "footer" => i = Len(files[p])

\* A closed file, and a record issued in its session that took the lock
\* after the next session began in the other file.
C19_Witness ==
    \E p, q \in Paths :
       /\ p # q
       /\ Closed(files[p])
       /\ \E i \in DOMAIN files[q] :
             IsRec(files[q][i]) /\ files[q][i].ep = files[p][1].ep
====
